---------------------------- MODULE Spec2Model ----------------------------
(***************************************************************************)
(* Sportex API (src/main.py, src/schemas.py): the document store and the   *)
(* route handlers that read and write it.                                  *)
(*                                                                         *)
(* Every collection of the store is a sequence of documents in insertion   *)
(* order (find_one returns the first match).  A document is a record; a    *)
(* handler that runs several store operations is modelled one store        *)
(* operation per step, so that requests served by different worker threads *)
(* interleave between store operations.                                    *)
(***************************************************************************)
EXTENDS Integers, Sequences, FiniteSets, TLC

VARIABLES
    user,           \* db["user"]
    athleteprofile, \* db["athleteprofile"]
    team,           \* db["team"]
    event,          \* db["event"]
    registration,   \* db["registration"]
    notification,   \* db["notification"]
    rq,             \* register_event requests in flight, one per worker
    aq,             \* /auth/register and /seed requests in flight, one per worker
    resp,           \* the last response sent, until the next request arrives
    returned        \* history: the register_event responses that carried a Registration

vars == <<user, athleteprofile, team, event, registration, notification,
          rq, aq, resp, returned>>

store == <<user, athleteprofile, team, event, registration, notification>>

----------------------------------------------------------------------------
(* Bounds of the model.                                                    *)

NumWorkers == 2      \* requests that can be in flight together
MaxEvents == 1       \* events created
MaxCapacity == 2     \* largest capacity an organizer asks for
MaxTeams == 1        \* teams created
MaxProfiles == 2     \* athlete profiles created

(* Program constants.                                                      *)

DefaultCapacity == 100

Workers == 1..NumWorkers

----------------------------------------------------------------------------
(* The store adapter.                                                      *)

None == [none |-> TRUE]

\* The store's own key (_id, an ObjectId) of the n-th document of a collection:
\* never equal to an id a client holds.
Oid(n) == 0 - n

\* The least of S: the position of the first document among those at positions S.
First(S) == CHOOSE i \in S : \A j \in S : i <= j

\* find_one({field: value}): the first document matching, or None.
FindOneBy(coll, field, value) ==
    LET S == {i \in 1..Len(coll) : field \in DOMAIN coll[i] /\ coll[i][field] = value}
    IN  IF S = {} THEN None ELSE coll[First(S)]

\* find_one({f1: v1, f2: v2})
FindOneBy2(coll, f1, v1, f2, v2) ==
    LET S == {i \in 1..Len(coll) : /\ f1 \in DOMAIN coll[i] /\ coll[i][f1] = v1
                                   /\ f2 \in DOMAIN coll[i] /\ coll[i][f2] = v2}
    IN  IF S = {} THEN None ELSE coll[First(S)]

\* count_documents({field: value, "status": {"$in": statuses}})
CountIn(coll, field, value, statuses) ==
    Cardinality({i \in 1..Len(coll) : /\ field \in DOMAIN coll[i] /\ coll[i][field] = value
                                      /\ "status" \in DOMAIN coll[i]
                                      /\ coll[i].status \in statuses})

\* create_document(collection, data): inserts data and returns the generated id.
NewId(coll) == Len(coll) + 1

CreateDocument(coll, data) ==
    Append(coll, data @@ ("id" :> NewId(coll)) @@ ("_id" :> Oid(NewId(coll))))

\* update_one({field: value}, {"$set": fields}): the first document matching.
UpdateOne(coll, field, value, fields) ==
    LET S == {i \in 1..Len(coll) : field \in DOMAIN coll[i] /\ coll[i][field] = value}
    IN  IF S = {} THEN coll ELSE [coll EXCEPT ![First(S)] = fields @@ coll[First(S)]]

\* dict.get(key, default)
Get(d, key, default) == IF key \in DOMAIN d THEN d[key] ELSE default

\* HTTPException(status_code, detail)
HTTPException(code, detail) == [status_code |-> code, detail |-> detail]

Ok(body) == [status_code |-> 200, body |-> body]

----------------------------------------------------------------------------
(* Schemas (src/schemas.py).                                               *)

Roles == {"athlete", "coach", "organizer", "admin", "guest"}

UserSchema(email, role) ==
    [email |-> email, role |-> role, is_active |-> TRUE, privacy |-> "public"]

\* Optional fields default to None, stats to {}, the lists to [].
AthleteProfileSchema(user_id, sport, position, bio, stats, achievements) ==
    [user_id |-> user_id, sport |-> sport, position |-> position, bio |-> bio,
     height_cm |-> None, weight_kg |-> None, stats |-> stats,
     achievements |-> achievements,
     media |-> <<[type |-> "image", url |-> "https://placehold.co/600x400"]>>,
     recent_performance |-> <<>>]

TeamSchema(name, coach_user_id) ==
    [name |-> name, coach_user_id |-> coach_user_id, roster_user_ids |-> <<>>]

EventSchema(title, capacity, organizer_user_id) ==
    [title |-> title, capacity |-> capacity, organizer_user_id |-> organizer_user_id]

RegistrationSchema(event_id, user_id, status) ==
    [event_id |-> event_id, user_id |-> user_id, status |-> status]

NotificationSchema(user_id, type, title, body) ==
    [user_id |-> user_id, type |-> type, title |-> title, body |-> body, read |-> FALSE]

----------------------------------------------------------------------------
(* Authentication.                                                         *)

\* get_current_user: the user document the token's subject names, or None
\* (the request is then answered 401 and never reaches a handler).
get_current_user(sub) == FindOneBy(user, "id", sub)

Authenticated == {sub \in 1..Len(user) : get_current_user(sub) # None}

Titles == {"Spring Showcase"}

----------------------------------------------------------------------------
(* Events: create_event.                                                   *)

EventCreators == {"organizer", "coach", "admin"}

create_event(sub, title, capacity) ==
    LET current == get_current_user(sub)
        evt == EventSchema(title, capacity, Get(current, "id", None))
    IN  /\ current # None
        /\ Len(event) < MaxEvents
        /\ IF Get(current, "role", None) \notin EventCreators
           THEN /\ resp' = [op |-> "create_event", sub |-> sub,
                            result |-> HTTPException(403, "Only organizers/coaches can create events")]
                /\ UNCHANGED event
           ELSE /\ event' = CreateDocument(event, evt)
                /\ resp' = [op |-> "create_event", sub |-> sub,
                            result |-> Ok(FindOneBy(event', "id", NewId(event)))]
        /\ UNCHANGED <<user, athleteprofile, team, registration, notification,
                       rq, aq, returned>>

----------------------------------------------------------------------------
(* Registration: register_event, one store operation per step.             *)

IdleRq == [pc |-> "idle", current |-> None, event_id |-> 0, evt |-> None,
           status |-> "", rid |-> 0]

Busy(w) == rq[w].pc # "idle" \/ aq[w].pc # "idle"

\* main.py:332, the statuses that take up capacity
Counted == {"pending", "confirmed"}

\* main.py:333
Capacity(evt) == Get(evt, "capacity", DefaultCapacity)

\* The capacity check off by one.
NewStatusInclusive(count, evt) ==
    IF count <= Capacity(evt) THEN "confirmed" ELSE "waitlisted"

NewStatus(count, evt) ==
    IF count < Capacity(evt) THEN "confirmed" ELSE "waitlisted"

\* The lookup of an earlier Registration left out.
ExistingRegistrationSkipped(event_id, current) == None

\* main.py:329
ExistingRegistration(event_id, current) ==
    FindOneBy2(registration, "event_id", event_id, "user_id", Get(current, "id", None))

RegisterEventResp(w, result, notif_error) ==
    [op |-> "register_event", sub |-> rq[w].current.id, event_id |-> rq[w].event_id,
     result |-> result, notif_error |-> notif_error]

\* The request arrives: the caller is authenticated and the handler is entered.
\* resp shows the answer to the latest request only.
RegisterEventStart(w, sub, event_id) ==
    /\ ~Busy(w)
    /\ get_current_user(sub) # None
    /\ rq' = [rq EXCEPT ![w] = [IdleRq EXCEPT !.pc = "find_event",
                                              !.current = get_current_user(sub),
                                              !.event_id = event_id]]
    /\ resp' = None
    /\ UNCHANGED <<store, aq, returned>>

\* main.py:326-328
RegisterEventFindEvent(w) ==
    /\ rq[w].pc = "find_event"
    /\ LET evt == FindOneBy(event, "id", rq[w].event_id)
       IN  IF evt = None
           THEN /\ resp' = RegisterEventResp(w, HTTPException(404, "Event not found"), FALSE)
                /\ rq' = [rq EXCEPT ![w] = IdleRq]
           ELSE /\ rq' = [rq EXCEPT ![w].pc = "find_existing", ![w].evt = evt]
                /\ UNCHANGED resp
    /\ UNCHANGED <<store, aq, returned>>

\* main.py:329-331
RegisterEventFindExisting(w) ==
    /\ rq[w].pc = "find_existing"
    /\ LET existing == ExistingRegistration(rq[w].event_id, rq[w].current)
       IN  IF existing # None
           THEN /\ resp' = RegisterEventResp(w, Ok(existing), FALSE)
                /\ returned' = returned \cup {existing}
                /\ rq' = [rq EXCEPT ![w] = IdleRq]
           ELSE /\ rq' = [rq EXCEPT ![w].pc = "count"]
                /\ UNCHANGED <<resp, returned>>
    /\ UNCHANGED <<store, aq>>

\* main.py:332-333
RegisterEventCount(w) ==
    /\ rq[w].pc = "count"
    /\ LET count == CountIn(registration, "event_id", rq[w].event_id, Counted)
       IN  rq' = [rq EXCEPT ![w].pc = "insert_registration",
                            ![w].status = NewStatus(count, rq[w].evt)]
    /\ UNCHANGED <<store, aq, resp, returned>>

\* main.py:334-335
RegisterEventInsert(w) ==
    /\ rq[w].pc = "insert_registration"
    /\ LET reg == RegistrationSchema(rq[w].event_id, rq[w].current.id, rq[w].status)
       IN  /\ registration' = CreateDocument(registration, reg)
           /\ rq' = [rq EXCEPT ![w].pc = "insert_notification",
                                ![w].rid = NewId(registration)]
    /\ UNCHANGED <<user, athleteprofile, team, event, notification, aq, resp, returned>>

\* main.py:336-337; notif_error: the store fails the insert and create_document raises.
RegisterEventNotify(w, notif_error) ==
    /\ rq[w].pc = "insert_notification"
    /\ LET notif == NotificationSchema(Get(rq[w].evt, "organizer_user_id", None),
                                       "event_update", "New Registration",
                                       <<"New registration for", rq[w].evt.title>>)
       IN  IF notif_error
           THEN /\ resp' = RegisterEventResp(w, HTTPException(500, "Internal Server Error"), TRUE)
                /\ rq' = [rq EXCEPT ![w] = IdleRq]
                /\ UNCHANGED notification
           ELSE /\ notification' = CreateDocument(notification, notif)
                /\ rq' = [rq EXCEPT ![w].pc = "return"]
                /\ UNCHANGED resp
    /\ UNCHANGED <<user, athleteprofile, team, event, registration, aq, returned>>

\* main.py:338
RegisterEventReturn(w) ==
    /\ rq[w].pc = "return"
    /\ LET found == FindOneBy(registration, "id", rq[w].rid)
           reg == RegistrationSchema(rq[w].event_id, rq[w].current.id, rq[w].status)
           doc == IF found # None THEN found ELSE reg @@ ("id" :> rq[w].rid)
       IN  /\ resp' = RegisterEventResp(w, Ok(doc), FALSE)
           /\ returned' = returned \cup {doc}
    /\ rq' = [rq EXCEPT ![w] = IdleRq]
    /\ UNCHANGED <<store, aq>>

register_event(w, notif_error) ==
    \/ RegisterEventFindEvent(w)
    \/ RegisterEventFindExisting(w)
    \/ RegisterEventCount(w)
    \/ RegisterEventInsert(w)
    \/ RegisterEventNotify(w, notif_error)
    \/ RegisterEventReturn(w)

----------------------------------------------------------------------------
(* Accounts: /auth/register and /seed, one store operation per step.       *)

IdleAq == [pc |-> "idle", op |-> "", email |-> "", role |-> "", ids |-> <<>>]

AuthResp(op, result) == [op |-> op, result |-> result]

\* create_access_token: the claims the token carries.
create_access_token(sub, email, role) == [sub |-> sub, email |-> email, role |-> role]

RegisterStart(w, email, role) ==
    /\ ~Busy(w)
    /\ aq' = [aq EXCEPT ![w] = [IdleAq EXCEPT !.pc = "find_email", !.op = "register",
                                              !.email = email, !.role = role]]
    /\ resp' = None
    /\ UNCHANGED <<store, rq, returned>>

\* main.py:138-140
RegisterFindEmail(w) ==
    /\ aq[w].pc = "find_email"
    /\ LET existing == FindOneBy(user, "email", aq[w].email)
       IN  IF existing # None
           THEN /\ resp' = AuthResp("register", HTTPException(400, "Email already registered"))
                /\ aq' = [aq EXCEPT ![w] = IdleAq]
           ELSE /\ aq' = [aq EXCEPT ![w].pc = "insert_user"]
                /\ UNCHANGED resp
    /\ UNCHANGED <<store, rq, returned>>

\* main.py:141-150
RegisterInsertUser(w) ==
    /\ aq[w].pc = "insert_user"
    /\ user' = CreateDocument(user, UserSchema(aq[w].email, aq[w].role))
    /\ resp' = AuthResp("register",
                        Ok(create_access_token(NewId(user), aq[w].email, aq[w].role)))
    /\ aq' = [aq EXCEPT ![w] = IdleAq]
    /\ UNCHANGED <<athleteprofile, team, event, registration, notification, rq, returned>>

register(w) == RegisterFindEmail(w) \/ RegisterInsertUser(w)

\* main.py:397-405, the accounts /seed creates, in order
NumSeedAthletes == 10

AthleteEmails ==
    <<"athlete1@sportex.io", "athlete2@sportex.io", "athlete3@sportex.io",
      "athlete4@sportex.io", "athlete5@sportex.io", "athlete6@sportex.io",
      "athlete7@sportex.io", "athlete8@sportex.io", "athlete9@sportex.io",
      "athlete10@sportex.io">>

SeedStaff ==
    <<UserSchema("admin@sportex.io", "admin"),
      UserSchema("coach@sportex.io", "coach"),
      UserSchema("org@sportex.io", "organizer")>>

SeedSports == <<"basketball", "soccer", "track", "volleyball">>

SeedPositions == <<"G", "F", "M", "S">>

\* main.py:406-415, the profile of the i-th seeded athlete (i from 0); the stats
\* are in tenths
SeedProfile(uid, i) ==
    AthleteProfileSchema(uid, SeedSports[(i % 4) + 1], SeedPositions[(i % 4) + 1],
                         "Aspiring athlete ready to compete.",
                         [ppg |-> 80 + i * 7, apg |-> 20 + i * 3],
                         IF i % 2 = 0 THEN <<"All-County", "MVP Nominee">>
                                      ELSE <<"All-Conference">>)

SeedStart(w) ==
    /\ ~Busy(w)
    /\ aq' = [aq EXCEPT ![w] = [IdleAq EXCEPT !.pc = "seed_count", !.op = "seed"]]
    /\ resp' = None
    /\ UNCHANGED <<store, rq, returned>>

\* main.py:394-395
SeedCount(w) ==
    /\ aq[w].pc = "seed_count"
    /\ IF Len(user) > 0
       THEN /\ resp' = AuthResp("seed", Ok("Already seeded"))
            /\ aq' = [aq EXCEPT ![w] = IdleAq]
       ELSE /\ aq' = [aq EXCEPT ![w].pc = "seed_staff"]
            /\ UNCHANGED resp
    /\ UNCHANGED <<store, rq, returned>>

\* main.py:397-399: ids = <<admin_id, coach_id, org_id>>
SeedStaffInsert(w) ==
    /\ aq[w].pc = "seed_staff"
    /\ user' = CreateDocument(user, SeedStaff[Len(aq[w].ids) + 1])
    /\ aq' = [aq EXCEPT ![w].ids = Append(@, NewId(user)),
                        ![w].pc = IF Len(aq[w].ids) + 1 = Len(SeedStaff)
                                  THEN "seed_athlete" ELSE "seed_staff"]
    /\ UNCHANGED <<athleteprofile, team, event, registration, notification,
                   rq, resp, returned>>

\* main.py:405: ids = <<admin_id, coach_id, org_id>> \o athletes \o <<uid>>
SeedAthleteInsert(w) ==
    /\ aq[w].pc = "seed_athlete"
    /\ user' = CreateDocument(user, UserSchema(AthleteEmails[Len(aq[w].ids) - 2], "athlete"))
    /\ aq' = [aq EXCEPT ![w].ids = Append(@, NewId(user)), ![w].pc = "seed_profile"]
    /\ UNCHANGED <<athleteprofile, team, event, registration, notification,
                   rq, resp, returned>>

\* main.py:406-417
SeedProfileInsert(w) ==
    /\ aq[w].pc = "seed_profile"
    /\ LET n == Len(aq[w].ids) - 3
       IN  /\ athleteprofile' =
                  CreateDocument(athleteprofile, SeedProfile(aq[w].ids[n + 3], n - 1))
           /\ aq' = [aq EXCEPT ![w].pc = IF n = NumSeedAthletes
                                         THEN "seed_rest" ELSE "seed_athlete"]
    /\ UNCHANGED <<user, team, event, registration, notification, rq, resp, returned>>

\* main.py:420-433: the team, the two events, the roster and the registrations
SeedRest(w) ==
    /\ aq[w].pc = "seed_rest"
    /\ LET ids == aq[w].ids
           team_id == NewId(team)
           e1 == NewId(event)
           roster == SubSeq(ids, 4, 8)
           t1 == CreateDocument(team, TeamSchema("Austin Hawks", ids[2]))
           ev1 == CreateDocument(event, EventSchema("Spring Showcase", 50, ids[3]))
           r1 == CreateDocument(registration, RegistrationSchema(e1, ids[4], "confirmed"))
           r2 == CreateDocument(r1, RegistrationSchema(e1, ids[5], "confirmed"))
       IN  /\ team' = UpdateOne(t1, "id", team_id, [roster_user_ids |-> roster])
           /\ event' = CreateDocument(ev1, EventSchema("Summer Combine", 80, ids[3]))
           /\ registration' =
                  CreateDocument(r2, RegistrationSchema(e1, ids[6], "confirmed"))
           /\ resp' = AuthResp("seed", Ok("Seeded"))
    /\ aq' = [aq EXCEPT ![w] = IdleAq]
    /\ UNCHANGED <<user, athleteprofile, notification, rq, returned>>

seed(w) ==
    \/ SeedCount(w)
    \/ SeedStaffInsert(w)
    \/ SeedAthleteInsert(w)
    \/ SeedProfileInsert(w)
    \/ SeedRest(w)

----------------------------------------------------------------------------
(* Athlete profiles: upsert_athlete_profile and get_athlete.               *)

\* ProfilePayload: the request bodies tried
ProfilePayloads ==
    {[sport |-> "soccer", position |-> None, bio |-> None],
     [sport |-> "track", position |-> "M", bio |-> "Sprinter"]}

\* main.py:170-182
upsert_athlete_profile(sub, data) ==
    LET current == get_current_user(sub)
        user_id == current.id
        existing == FindOneBy(athleteprofile, "user_id", user_id)
        payload == AthleteProfileSchema(user_id, data.sport, data.position, data.bio,
                                        [ppg |-> 80], <<"All-County">>)
                       @@ ("updated_at" :> "now")
    IN  /\ current # None
        /\ IF existing # None
           THEN /\ athleteprofile' = UpdateOne(athleteprofile, "_id", existing["_id"], payload)
                /\ resp' = [op |-> "upsert_athlete_profile", sub |-> sub,
                            result |-> Ok(FindOneBy(athleteprofile', "_id", existing["_id"]))]
           ELSE /\ Len(athleteprofile) < MaxProfiles
                /\ athleteprofile' = CreateDocument(athleteprofile, payload)
                /\ resp' = [op |-> "upsert_athlete_profile", sub |-> sub,
                            result |-> Ok(FindOneBy(athleteprofile', "id",
                                                    NewId(athleteprofile)))]
        /\ UNCHANGED <<user, team, event, registration, notification, rq, aq, returned>>

\* The bio let through.
LimitedFieldsWithBio == {"sport", "position", "bio", "stats", "achievements", "media"}

\* main.py:197
LimitedFields == {"sport", "position", "stats", "achievements", "media"}

Redact(doc) == [k \in LimitedFields \cap DOMAIN doc |-> doc[k]]

\* The admin exemption left out.
StrangerAdminToo(current, owner_id) == Get(current, "id", None) # owner_id

\* The owner exemption left out.
StrangerOwnerToo(current, owner_id) == Get(current, "role", None) # "admin"

\* main.py:194 and 196: the caller is neither the owner nor an admin
Stranger(current, owner_id) ==
    Get(current, "id", None) # owner_id /\ Get(current, "role", None) # "admin"

\* main.py:187-198: the response to current asking for athlete_id
AthleteView(athlete_id, current) ==
    LET byId == FindOneBy(athleteprofile, "id", athlete_id)
        doc == IF byId # None THEN byId ELSE FindOneBy(athleteprofile, "_id", athlete_id)
        owner_id == Get(doc, "user_id", None)
        found == FindOneBy(user, "id", owner_id)
        owner == IF found # None THEN found ELSE <<>>
        privacy == Get(owner, "privacy", "public")
    IN  IF doc = None THEN HTTPException(404, "Athlete not found")
        ELSE IF privacy = "private" /\ Stranger(current, owner_id)
             THEN HTTPException(403, "Profile is private")
        ELSE IF privacy = "limited" /\ Stranger(current, owner_id)
             THEN Ok(Redact(doc))
        ELSE Ok(doc)

get_athlete(sub, athlete_id) ==
    /\ get_current_user(sub) # None
    /\ resp' = [op |-> "get_athlete", sub |-> sub, athlete_id |-> athlete_id,
                result |-> AthleteView(athlete_id, get_current_user(sub))]
    /\ UNCHANGED <<store, rq, aq, returned>>

----------------------------------------------------------------------------
(* Teams: create_team and add_to_roster.                                   *)

TeamCreators == {"coach", "organizer", "admin"}

\* main.py:240-246
create_team(sub, name) ==
    LET current == get_current_user(sub)
        t == TeamSchema(name, Get(current, "id", None))
    IN  /\ current # None
        /\ Len(team) < MaxTeams
        /\ IF Get(current, "role", None) \notin TeamCreators
           THEN /\ resp' = [op |-> "create_team", sub |-> sub,
                            result |-> HTTPException(403, "Only coaches/organizers can create teams")]
                /\ UNCHANGED team
           ELSE /\ team' = CreateDocument(team, t)
                /\ resp' = [op |-> "create_team", sub |-> sub,
                            result |-> Ok(FindOneBy(team', "id", NewId(team)))]
        /\ UNCHANGED <<user, athleteprofile, event, registration, notification,
                       rq, aq, returned>>

\* main.py:262: the caller may not modify the team's roster
RosterForbidden(current, t) ==
    \/ Get(current, "role", None) \notin {"coach", "admin"}
    \/ Get(t, "coach_user_id", None) # Get(current, "id", None)

InRoster(user_id, roster) == \E i \in 1..Len(roster) : roster[i] = user_id

AddToRosterResp(sub, team_id, user_id, result, notif_error) ==
    [op |-> "add_to_roster", sub |-> sub, team_id |-> team_id, user_id |-> user_id,
     result |-> result, notif_error |-> notif_error]

\* main.py:258-270; notif_error: the store fails the insert of the Notification and
\* create_document raises.
add_to_roster(sub, team_id, user_id, notif_error) ==
    LET current == get_current_user(sub)
        t == FindOneBy(team, "id", team_id)
        roster == Get(t, "roster_user_ids", <<>>)
        notif == NotificationSchema(user_id, "invite", "Team Invite",
                                    <<"You were added to", t.name>>)
    IN  /\ current # None
        /\ IF t = None
           THEN /\ resp' = AddToRosterResp(sub, team_id, user_id,
                                           HTTPException(404, "Team not found"), FALSE)
                /\ UNCHANGED <<team, notification>>
           ELSE IF RosterForbidden(current, t)
           THEN /\ resp' = AddToRosterResp(sub, team_id, user_id,
                                HTTPException(403, "Only coach can modify roster"), FALSE)
                /\ UNCHANGED <<team, notification>>
           ELSE IF InRoster(user_id, roster)
           THEN /\ resp' = AddToRosterResp(sub, team_id, user_id,
                                           Ok([ok |-> TRUE, roster |-> roster]), FALSE)
                /\ UNCHANGED <<team, notification>>
           ELSE /\ team' = UpdateOne(team, "id", team_id,
                                     [roster_user_ids |-> Append(roster, user_id)])
                /\ IF notif_error
                   THEN /\ resp' = AddToRosterResp(sub, team_id, user_id,
                                       HTTPException(500, "Internal Server Error"), TRUE)
                        /\ UNCHANGED notification
                   ELSE /\ notification' = CreateDocument(notification, notif)
                        /\ resp' = AddToRosterResp(sub, team_id, user_id,
                                       Ok([ok |-> TRUE, roster |-> Append(roster, user_id)]),
                                       FALSE)
        /\ UNCHANGED <<user, athleteprofile, event, registration, rq, aq, returned>>

----------------------------------------------------------------------------
(* Notifications: mark_read.                                               *)

\* main.py:363-366
mark_read(sub, notif_id) ==
    /\ get_current_user(sub) # None
    /\ notification' = UpdateOne(notification, "id", notif_id, [read |-> TRUE])
    /\ resp' = [op |-> "mark_read", sub |-> sub, notif_id |-> notif_id,
                result |-> Ok([ok |-> TRUE])]
    /\ UNCHANGED <<user, athleteprofile, team, event, registration, rq, aq, returned>>

----------------------------------------------------------------------------
(* Initial states and specifications.                                      *)

\* The user collection after /auth/register of each of these accounts, in order.
Registered(accounts) ==
    LET RECURSIVE Ins(_)
        Ins(n) == IF n = 0 THEN <<>> ELSE CreateDocument(Ins(n - 1), accounts[n])
    IN  Ins(Len(accounts))

EngineAccounts ==
    Registered(<<UserSchema("coach@sportex.io", "coach"),
                 UserSchema("athlete1@sportex.io", "athlete"),
                 UserSchema("athlete2@sportex.io", "athlete")>>)

TeamAccounts ==
    Registered(<<UserSchema("admin@sportex.io", "admin"),
                 UserSchema("coach@sportex.io", "coach"),
                 UserSchema("coach2@sportex.io", "coach"),
                 UserSchema("org@sportex.io", "organizer"),
                 UserSchema("athlete1@sportex.io", "athlete")>>)

ViewAccounts ==
    Registered(<<UserSchema("athlete1@sportex.io", "athlete"),
                 UserSchema("athlete2@sportex.io", "athlete"),
                 UserSchema("admin@sportex.io", "admin"),
                 UserSchema("coach@sportex.io", "coach")>>)

\* schemas.py:20, and a user document stored without the field
PrivacyTiers == {"public", "limited", "private"}

WithPrivacy(u, tier) ==
    IF tier = "unset" THEN [k \in DOMAIN u \ {"privacy"} |-> u[k]]
    ELSE [u EXCEPT !.privacy = tier]

EmptyStore ==
    /\ athleteprofile = <<>>
    /\ team = <<>>
    /\ event = <<>>
    /\ registration = <<>>
    /\ notification = <<>>
    /\ rq = [w \in Workers |-> IdleRq]
    /\ aq = [w \in Workers |-> IdleAq]
    /\ resp = None
    /\ returned = {}

AllIdle == \A w \in Workers : ~Busy(w)

InitEngine == user = EngineAccounts /\ EmptyStore

InitTeam == user = TeamAccounts /\ EmptyStore

\* The privacy tier is set by profile edits outside these handlers: every tier of
\* the two athletes is an initial state.
InitView ==
    /\ \E t1 \in PrivacyTiers \cup {"unset"}, t2 \in PrivacyTiers \cup {"unset"} :
           user = [ViewAccounts EXCEPT ![1] = WithPrivacy(@, t1),
                                       ![2] = WithPrivacy(@, t2)]
    /\ EmptyStore

InitAuth == user = <<>> /\ EmptyStore

Capacities == 0..MaxCapacity

EventIds == 1..MaxEvents

\* Requests served concurrently, no store failure.
Next ==
    \/ \E sub \in Authenticated, title \in Titles, capacity \in Capacities :
           create_event(sub, title, capacity)
    \/ \E w \in Workers, sub \in Authenticated, e \in EventIds :
           RegisterEventStart(w, sub, e)
    \/ \E w \in Workers : register_event(w, FALSE)

Spec == InitEngine /\ [][Next]_vars

\* Requests served one after another, no store failure: each request is taken
\* by the first worker once every worker is idle.
NextSeq ==
    \/ /\ AllIdle
       /\ \E sub \in Authenticated, title \in Titles, capacity \in Capacities :
              create_event(sub, title, capacity)
    \/ /\ AllIdle
       /\ \E sub \in Authenticated, e \in EventIds :
              RegisterEventStart(First(Workers), sub, e)
    \/ \E w \in Workers : register_event(w, FALSE)

SpecSeq == InitEngine /\ [][NextSeq]_vars

\* Requests served one after another; the insert of a Notification may fail.
\* One athlete is proposed for the roster.
RosterCandidates == {2}

NextFail ==
    \/ /\ AllIdle
       /\ \E sub \in Authenticated, title \in Titles, capacity \in Capacities :
              create_event(sub, title, capacity)
    \/ /\ AllIdle
       /\ \E sub \in Authenticated, e \in EventIds :
              RegisterEventStart(First(Workers), sub, e)
    \/ \E w \in Workers, notif_error \in BOOLEAN : register_event(w, notif_error)
    \/ /\ AllIdle
       /\ \E sub \in Authenticated : create_team(sub, "Austin Hawks")
    \/ /\ AllIdle
       /\ \E sub \in Authenticated, t \in 1..MaxTeams, u \in RosterCandidates,
             notif_error \in BOOLEAN : add_to_roster(sub, t, u, notif_error)

SpecFail == InitEngine /\ [][NextFail]_vars

\* Profile reads and writes.
NextView ==
    \/ \E sub \in Authenticated, data \in ProfilePayloads :
           upsert_athlete_profile(sub, data)
    \/ \E sub \in Authenticated, a \in 1..(MaxProfiles + 1) : get_athlete(sub, a)

SpecView == InitView /\ [][NextView]_vars

\* Teams and rosters.
NextTeam ==
    \/ \E sub \in Authenticated : create_team(sub, "Austin Hawks")
    \/ \E sub \in Authenticated, t \in 1..MaxTeams, u \in Authenticated :
           add_to_roster(sub, t, u, FALSE)

SpecTeam == InitTeam /\ [][NextTeam]_vars

\* Team invites and their read flags; a notif_id past the last one names no
\* Notification.
NextNotif ==
    \/ \E sub \in Authenticated : create_team(sub, "Austin Hawks")
    \/ \E sub \in Authenticated, t \in 1..MaxTeams, u \in Authenticated :
           add_to_roster(sub, t, u, FALSE)
    \/ \E sub \in Authenticated, n \in 1..(Len(notification) + 1) : mark_read(sub, n)

SpecNotif == InitEngine /\ [][NextNotif]_vars

\* Account creation, requests served concurrently.
RegisterEmails == {"admin@sportex.io", "new@example.com"}

\* /seed is served by one worker, so that one /seed is in flight at a time.
SeedWorkers == {1}

NextAuth ==
    \/ \E w \in Workers, email \in RegisterEmails : RegisterStart(w, email, "athlete")
    \/ \E w \in Workers : register(w)
    \/ \E w \in SeedWorkers : SeedStart(w)
    \/ \E w \in Workers : seed(w)

SpecAuth == InitAuth /\ [][NextAuth]_vars

----------------------------------------------------------------------------
(* Properties of the registration engine.                                  *)

Answered(op) == resp # None /\ resp.op = op

Stored(coll) == {coll[i] : i \in 1..Len(coll)}

\* The positions of the registrations of event e, in insertion order.
RegsOf(e) == {i \in 1..Len(registration) : registration[i].event_id = e}

\* C1: under any interleaving of register_event requests, no event ever holds more
\* pending or confirmed Registrations than its capacity, and a registrant for an
\* existing event is never rejected.
C1_CapacityNeverExceeded ==
    /\ \A evt \in Stored(event) :
           CountIn(registration, "event_id", evt.id, Counted) <= evt.capacity
    /\ (Answered("register_event") /\ FindOneBy(event, "id", resp.event_id) # None)
           => resp.result.status_code = 200

\* C4: under any interleaving of register_event requests, the registration
\* collection holds at most one Registration per (event_id, user_id) pair.
C4_OneRegistrationPerPair ==
    \A i, j \in 1..Len(registration) :
        (/\ registration[i].event_id = registration[j].event_id
         /\ registration[i].user_id = registration[j].user_id) => i = j

\* C2: with requests served one after another, every register_event response for
\* the same (event, user) carries the same stored Registration, the pair has one
\* Registration, and once the requests are answered the k-th Notification is the
\* one event_update sent to the organizer for the k-th Registration.
C2_Idempotent ==
    /\ \A r1, r2 \in returned :
           (r1.event_id = r2.event_id /\ r1.user_id = r2.user_id) => r1 = r2
    /\ returned \subseteq Stored(registration)
    /\ \A i, j \in 1..Len(registration) :
           (/\ registration[i].event_id = registration[j].event_id
            /\ registration[i].user_id = registration[j].user_id) => i = j
    /\ AllIdle =>
           /\ Len(notification) = Len(registration)
           /\ \A k \in 1..Len(notification) :
                  /\ notification[k].type = "event_update"
                  /\ notification[k].user_id =
                         FindOneBy(event, "id", registration[k].event_id).organizer_user_id

\* A user is answered with their Registration again after another user registered.
C2_Witness ==
    /\ AllIdle
    /\ Answered("register_event")
    /\ Len(registration) >= 2
    /\ resp.result = Ok(registration[1])
    /\ resp.sub = registration[1].user_id
    /\ Len(notification) = Len(registration)

\* The k-th registrant of an event is confirmed exactly when k is within capacity.
StatusByOrder ==
    \A evt \in Stored(event) : \A i \in RegsOf(evt.id) :
        LET k == Cardinality({j \in RegsOf(evt.id) : j <= i})
        IN  registration[i].status =
                IF k <= evt.capacity THEN "confirmed" ELSE "waitlisted"

\* The Registration a request inserts is confirmed exactly when the event's pending
\* or confirmed Registrations at that moment number less than its capacity.
ConfirmedIffBelowCapacity ==
    \A w \in Workers :
        (rq[w].pc = "insert_registration" /\ rq'[w].pc = "insert_notification") =>
            LET new == registration'[Len(registration')]
                evt == FindOneBy(event, "id", new.event_id)
            IN  (new.status = "confirmed") <=>
                    (CountIn(registration, "event_id", new.event_id, Counted)
                         < evt.capacity)

\* C3: with requests served one after another, registrants 1..N of an event of
\* capacity N are confirmed and every later one is waitlisted; a new Registration
\* is confirmed exactly when the count of pending or confirmed ones is below
\* capacity.
C3_ConfirmedThenWaitlisted ==
    []StatusByOrder /\ [][ConfirmedIffBelowCapacity]_vars

\* An event of capacity N >= 2 has N confirmed registrants and one more, waitlisted.
C3_Witness ==
    /\ AllIdle
    /\ \E evt \in Stored(event) :
           /\ evt.capacity >= 2
           /\ Cardinality(RegsOf(evt.id)) = evt.capacity + 1
           /\ CountIn(registration, "event_id", evt.id, {"confirmed"}) = evt.capacity
           /\ CountIn(registration, "event_id", evt.id, {"waitlisted"}) = 1

----------------------------------------------------------------------------
(* Properties of the profile visibility rules.                             *)

\* The profile the last get_athlete asked for, its caller, and the tier of the
\* profile's owner ("unset" when the owner's document has no privacy field).
ViewedDoc == FindOneBy(athleteprofile, "id", resp.athlete_id)

Caller == FindOneBy(user, "id", resp.sub)

OwnerTier ==
    LET owner == FindOneBy(user, "id", ViewedDoc.user_id)
    IN  IF owner = None \/ "privacy" \notin DOMAIN owner THEN "unset" ELSE owner.privacy

CallerIsOwner == Caller.id = ViewedDoc.user_id

CallerIsAdmin == Caller.role = "admin"

Viewed == Answered("get_athlete") /\ ViewedDoc # None

C6_LimitedViewFields ==
    (Viewed /\ OwnerTier = "limited" /\ ~CallerIsOwner /\ ~CallerIsAdmin) =>
        /\ resp.result.status_code = 200
        /\ DOMAIN resp.result.body =
               {"sport", "position", "stats", "achievements", "media"}
        /\ \A k \in DOMAIN resp.result.body : resp.result.body[k] = ViewedDoc[k]

\* A stranger reads a limited profile whose stored record holds a bio and a position.
C6_Witness ==
    /\ Viewed
    /\ OwnerTier = "limited"
    /\ ~CallerIsOwner
    /\ ~CallerIsAdmin
    /\ ViewedDoc.sport = "track"
    /\ resp.result.status_code = 200
    /\ resp.result.body.sport = "track"

FullViewForOwnerAndAdmin ==
    (Viewed /\ (CallerIsOwner \/ CallerIsAdmin)) => resp.result = Ok(ViewedDoc)

GetAthleteReadsOnly ==
    (resp' # None /\ resp'.op = "get_athlete") => UNCHANGED store

\* C7: whatever the owner's tier, get_athlete asked by an admin or by the owner
\* answers the full stored record, and the call changes nothing in the store.
C7_AdminAndOwnerSeeAll ==
    []FullViewForOwnerAndAdmin /\ [][GetAthleteReadsOnly]_vars

\* An admin who is not the owner reads a private profile in full.
C7_Witness ==
    /\ Viewed
    /\ OwnerTier = "private"
    /\ CallerIsAdmin
    /\ ~CallerIsOwner
    /\ resp.result = Ok(ViewedDoc)
    /\ "bio" \in DOMAIN resp.result.body

----------------------------------------------------------------------------
(* Properties of rosters, notifications and accounts.                      *)

\* C8: add_to_roster on an existing team succeeds exactly when the caller is the
\* team's coach (coach_user_id) or has the role admin; every other caller is
\* answered Forbidden.
C8_CoachOrAdminMutates ==
    (Answered("add_to_roster") /\ FindOneBy(team, "id", resp.team_id) # None) =>
        LET t == FindOneBy(team, "id", resp.team_id)
        IN  /\ (resp.result.status_code = 200) <=>
                   (Caller.id = t.coach_user_id \/ Caller.role = "admin")
            /\ resp.result.status_code \in {200, 403}

\* C9: when the insert of the Notification fails, the write made before it stays
\* and the caller still receives the successful response.
C9_FireAndForget ==
    (resp # None /\ "notif_error" \in DOMAIN resp /\ resp.notif_error) =>
        /\ resp.result.status_code = 200
        /\ resp.op = "register_event" =>
               FindOneBy2(registration, "event_id", resp.event_id,
                          "user_id", resp.sub) # None
        /\ resp.op = "add_to_roster" =>
               InRoster(resp.user_id, FindOneBy(team, "id", resp.team_id).roster_user_ids)

\* C10: under any interleaving of /auth/register and /seed requests, no two user
\* documents hold the same email.
C10_EmailsUnique ==
    \A i, j \in 1..Len(user) : user[i].email = user[j].email => i = j

\* C11: a Notification is created unread, and its read flag goes from false to
\* true only in a mark_read call made by the user it is addressed to; a call by
\* any other user leaves the flag as it was.
C11_ReadOnlyByRecipient ==
    [][/\ \A k \in 1..Len(notification') :
              k > Len(notification) => ~notification'[k].read
       /\ \A k \in 1..Len(notification) :
              (~notification[k].read /\ notification'[k].read) =>
                  /\ resp'.op = "mark_read"
                  /\ resp'.sub = notification[k].user_id]_vars

============================================================================
